---- MODULE Spec2Model ----
(***************************************************************************)
(* StreamDeck-AudioSwitcher: the button registry, the settings decoder,    *)
(* the volatile device-id resolver and the key-press state machine of      *)
(* Sources/AudioSwitcherStreamDeckPlugin.cpp and Sources/ButtonSettings.cpp*)
(*                                                                         *)
(* Strings of the program are TLA+ strings, except interface names, which  *)
(* are tuples of one-character strings because FuzzifyInterface looks      *)
(* inside them.  A JSON object is a function whose DOMAIN is the set of    *)
(* keys it contains.                                                       *)
(***************************************************************************)
EXTENDS Integers, Sequences, FiniteSets, TLC

VARIABLES
  devices,          \* the provider's device map: id -> AudioDeviceInfo
  osDefault,        \* the OS default device id per <<direction, role>>
  pending,          \* default-device-changed notifications whose callback has not returned
  mButtons,         \* std::map<std::string, Button>
  lockOwner,        \* holder of mVisibleContextsMutex: "none", "host", "os"
  hostPc,           \* host callback thread: "idle", "inHandler", "blocked"
  osPc,             \* notification thread: "idle", "called", "iterating", "blocked"
  os,               \* the running OnDefaultDeviceChanged call: loop cursor and calls made
  out,              \* what the running host handler did (cleared when it returns)
  rIn,              \* argument of the function run alone (SpecResolve, SpecDecode, ...)
  rOut              \* its result

vars == <<devices, osDefault, pending, mButtons, lockOwner,
          hostPc, osPc, os, out, rIn, rOut>>

--------------------------------------------------------------------------
(* Bounds *)

MaxPending == 1
\* longest interface name given to FuzzifyInterface alone
MaxNameLen == 5

--------------------------------------------------------------------------
(* Constants of the program *)

SET_ACTION_ID == "com.fredemmott.audiooutputswitch.set"
TOGGLE_ACTION_ID == "com.fredemmott.audiooutputswitch.toggle"

Directions == {"INPUT", "OUTPUT"}
Roles == {"DEFAULT", "COMMUNICATION"}

Contexts == {"c1", "c2"}
\* std::map iterates in key order
ContextOrder == <<"c1", "c2">>
\* the host binds a context to one action for its lifetime
ActionOf == [c \in Contexts |-> IF c = "c1" THEN SET_ACTION_ID ELSE TOGGLE_ACTION_ID]

Has(j, k) == k \in DOMAIN j

DefaultHotkeyConfig ==
  [enabled |-> FALSE, ctrl |-> FALSE, alt |-> FALSE, shift |-> FALSE,
   win |-> FALSE, keyCode |-> ""]

\* a value-initialised AudioDeviceInfo: empty strings, first enumerators
DefaultAudioDeviceInfo ==
  [id |-> "", interfaceName |-> <<>>, endpointName |-> "", displayName |-> "",
   direction |-> "OUTPUT", state |-> "CONNECTED"]

DefaultButtonSettings ==
  [direction |-> "INPUT", role |-> "DEFAULT",
   primaryDevice |-> DefaultAudioDeviceInfo,
   secondaryDevice |-> DefaultAudioDeviceInfo,
   matchStrategy |-> "ID",
   primaryHotkey |-> DefaultHotkeyConfig,
   secondaryHotkey |-> DefaultHotkeyConfig]

--------------------------------------------------------------------------
(* Settings decoding (ButtonSettings.cpp) *)

from_json_HotkeyConfigAliasFirst(j, hk) ==
  [enabled |-> IF Has(j, "hotkeyEnabled") THEN j.hotkeyEnabled
               ELSE IF Has(j, "enabled") THEN j.enabled ELSE hk.enabled,
   ctrl |-> IF Has(j, "hotkeyCtrl") THEN j.hotkeyCtrl
            ELSE IF Has(j, "ctrl") THEN j.ctrl ELSE hk.ctrl,
   alt |-> IF Has(j, "hotkeyAlt") THEN j.hotkeyAlt
           ELSE IF Has(j, "alt") THEN j.alt ELSE hk.alt,
   shift |-> IF Has(j, "hotkeyShift") THEN j.hotkeyShift
             ELSE IF Has(j, "shift") THEN j.shift ELSE hk.shift,
   win |-> IF Has(j, "hotkeyWin") THEN j.hotkeyWin
           ELSE IF Has(j, "win") THEN j.win ELSE hk.win,
   keyCode |-> IF Has(j, "hotkeyKey") THEN j.hotkeyKey
               ELSE IF Has(j, "keyCode") THEN j.keyCode ELSE hk.keyCode]

from_json_HotkeyConfig(j, hk) ==
  [enabled |-> IF Has(j, "enabled") THEN j.enabled
               ELSE IF Has(j, "hotkeyEnabled") THEN j.hotkeyEnabled ELSE hk.enabled,
   ctrl |-> IF Has(j, "ctrl") THEN j.ctrl
            ELSE IF Has(j, "hotkeyCtrl") THEN j.hotkeyCtrl ELSE hk.ctrl,
   alt |-> IF Has(j, "alt") THEN j.alt
           ELSE IF Has(j, "hotkeyAlt") THEN j.hotkeyAlt ELSE hk.alt,
   shift |-> IF Has(j, "shift") THEN j.shift
             ELSE IF Has(j, "hotkeyShift") THEN j.hotkeyShift ELSE hk.shift,
   win |-> IF Has(j, "win") THEN j.win
           ELSE IF Has(j, "hotkeyWin") THEN j.hotkeyWin ELSE hk.win,
   keyCode |-> IF Has(j, "keyCode") THEN j.keyCode
               ELSE IF Has(j, "hotkeyKey") THEN j.hotkeyKey ELSE hk.keyCode]

\* `hk = json`: nlohmann converts through a value-initialised HotkeyConfig
JsonGetHotkeyConfig(j) == from_json_HotkeyConfig(j, DefaultHotkeyConfig)

\* `bs.primaryDevice = primary` for a JSON object (audio_json.h)
JsonGetAudioDeviceInfo(j) ==
  [id |-> j.id, interfaceName |-> j.interfaceName, endpointName |-> j.endpointName,
   displayName |-> j.displayName, direction |-> j.direction, state |-> j.state]

DecodeDevice(j, di) ==
  IF j.kind = "string" THEN [di EXCEPT !.id = j.s] ELSE JsonGetAudioDeviceInfo(j.o)

from_json_ButtonSettings(j, bs) ==
  IF ~Has(j, "direction") THEN bs
  ELSE
    [direction |-> j.direction,
     role |-> IF Has(j, "role") THEN j.role ELSE bs.role,
     primaryDevice |-> IF Has(j, "primary")
                       THEN DecodeDevice(j.primary, bs.primaryDevice)
                       ELSE bs.primaryDevice,
     secondaryDevice |-> IF Has(j, "secondary")
                         THEN DecodeDevice(j.secondary, bs.secondaryDevice)
                         ELSE bs.secondaryDevice,
     matchStrategy |-> IF Has(j, "matchStrategy") THEN j.matchStrategy
                       ELSE bs.matchStrategy,
     primaryHotkey |-> IF Has(j, "primaryHotkey")
                       THEN JsonGetHotkeyConfig(j.primaryHotkey)
                       ELSE IF Has(j, "hotkey") THEN JsonGetHotkeyConfig(j.hotkey)
                       ELSE bs.primaryHotkey,
     secondaryHotkey |-> IF Has(j, "secondaryHotkey")
                         THEN JsonGetHotkeyConfig(j.secondaryHotkey)
                         ELSE bs.secondaryHotkey]

\* `settings = inPayload.at("settings")`: the json conversion operator builds a
\* value-initialised ButtonSettings, runs from_json on it and assigns the result
JsonGetButtonSettings(j) == from_json_ButtonSettings(j, DefaultButtonSettings)

--------------------------------------------------------------------------
(* Device provider (external collaborator, spec section 6) *)

\* key order of the std::map GetAudioDeviceList returns
DeviceOrder == <<"A", "B", "C">>

GetAudioDeviceList(direction) ==
  SelectSeq(DeviceOrder,
            LAMBDA i : i \in DOMAIN devices /\ devices[i].direction = direction)

GetAudioDeviceState(id) ==
  IF id \in DOMAIN devices THEN devices[id].state ELSE "DEVICE_NOT_PRESENT"

GetDefaultAudioDeviceID(direction, role) == osDefault[<<direction, role>>]

--------------------------------------------------------------------------
(* Volatile id resolution (ButtonSettings.cpp) *)

IsDigit(c) == c \in {"0", "1", "2", "3", "4", "5", "6", "7", "8", "9"}

\* `.` of an ECMAScript regex matches anything but a line terminator
Dot(c) == c \notin {"\n", "\r"}

AllDot(s) == \A i \in 1..Len(s) : Dot(s[i])

RECURSIVE DigitPrefixLen(_)
DigitPrefixLen(s) ==
  IF s # <<>> /\ IsDigit(Head(s)) THEN 1 + DigitPrefixLen(Tail(s)) ELSE 0

FuzzifyInterfaceIdentity(name) == name

\* regex_match of ^([0-9]+- )?(.+)$, returning captures[2], or name on no match
FuzzifyInterface(name) ==
  LET n == DigitPrefixLen(name)
      ordinal == n >= 1 /\ Len(name) >= n + 2 /\ name[n + 1] = "-" /\ name[n + 2] = " "
      rest == SubSeq(name, n + 3, Len(name))
  IN IF ordinal /\ rest # <<>> /\ AllDot(rest) THEN rest
     ELSE IF name # <<>> /\ AllDot(name) THEN name
     ELSE name

FuzzyMatchesAnyState(device, other) ==
  /\ FuzzifyInterface(device.interfaceName) = FuzzifyInterface(other.interfaceName)
  /\ device.endpointName = other.endpointName

\* lines 174-181: a device of the list is taken as the configured one
FuzzyMatches(device, other) ==
  /\ other.state = "CONNECTED"
  /\ FuzzifyInterface(device.interfaceName) = FuzzifyInterface(other.interfaceName)
  /\ device.endpointName = other.endpointName

GetVolatileIDNoEmptyCheck(device, strategy) ==
  IF strategy = "ID" THEN device.id
  ELSE IF GetAudioDeviceState(device.id) = "CONNECTED" THEN device.id
  ELSE LET found == SelectSeq(GetAudioDeviceList(device.direction),
                              LAMBDA i : FuzzyMatches(device, devices[i]))
       IN IF found # <<>> THEN Head(found) ELSE device.id

GetVolatileIDAlwaysFuzzy(device, strategy) ==
  IF device.id = "" THEN ""
  ELSE IF GetAudioDeviceState(device.id) = "CONNECTED" THEN device.id
  ELSE LET found == SelectSeq(GetAudioDeviceList(device.direction),
                              LAMBDA i : FuzzyMatches(device, devices[i]))
       IN IF found # <<>> THEN Head(found) ELSE device.id

GetVolatileID(device, strategy) ==
  IF device.id = "" THEN ""
  ELSE IF strategy = "ID" THEN device.id
  ELSE IF GetAudioDeviceState(device.id) = "CONNECTED" THEN device.id
  ELSE LET found == SelectSeq(GetAudioDeviceList(device.direction),
                              LAMBDA i : FuzzyMatches(device, devices[i]))
       IN IF found # <<>> THEN Head(found) ELSE device.id

VolatilePrimaryID(settings) == GetVolatileID(settings.primaryDevice, settings.matchStrategy)

VolatileSecondaryID(settings) == GetVolatileID(settings.secondaryDevice, settings.matchStrategy)

--------------------------------------------------------------------------
(* Inputs the host and the OS deliver *)

StrId(s) == [kind |-> "string", s |-> s]
Obj(o) == [kind |-> "object", o |-> o]

DevA == [id |-> "A", interfaceName |-> <<"2", "-", " ", "S">>, endpointName |-> "E",
         displayName |-> "S (E)", direction |-> "OUTPUT", state |-> "CONNECTED"]
DevB == [id |-> "B", interfaceName |-> <<"S">>, endpointName |-> "E",
         displayName |-> "S (E)", direction |-> "OUTPUT", state |-> "CONNECTED"]
DevC == [id |-> "C", interfaceName |-> <<"H">>, endpointName |-> "E",
         displayName |-> "H (E)", direction |-> "OUTPUT", state |-> "CONNECTED"]

Gone(d) == [d EXCEPT !.state = "DEVICE_NOT_PRESENT"]

\* device maps the provider can report: A and C plugged in; A unplugged and
\* re-enumerated as B
LiveSets ==
  { [i \in {"A", "C"} |-> IF i = "A" THEN DevA ELSE DevC],
    [i \in {"A", "B", "C"} |-> IF i = "A" THEN Gone(DevA) ELSE IF i = "B" THEN DevB ELSE DevC] }

HotkeyOn == [enabled |-> TRUE, ctrl |-> TRUE, alt |-> FALSE, shift |-> FALSE,
             win |-> FALSE, keyCode |-> "A"]

\* settings blobs: one without direction, one with string ids, exact matching
\* and a legacy hotkey, one with full descriptors, fuzzy matching and another role
BlobNoDirection == [role |-> "COMMUNICATION", primary |-> StrId("C")]
BlobIds ==
  [direction |-> "OUTPUT", role |-> "DEFAULT", primary |-> StrId("A"),
   secondary |-> StrId("C"), matchStrategy |-> "ID",
   hotkey |-> [hotkeyEnabled |-> TRUE, hotkeyKey |-> "A"]]
BlobFuzzy ==
  [direction |-> "OUTPUT", role |-> "COMMUNICATION", primary |-> Obj(DevA),
   secondary |-> Obj(DevC), matchStrategy |-> "Fuzzy",
   primaryHotkey |-> [enabled |-> FALSE, keyCode |-> "B"],
   secondaryHotkey |-> HotkeyOn]

Blobs == {BlobNoDirection, BlobIds, BlobFuzzy}

NoPayload == [isInMultiAction |-> FALSE]

AppearPayloads == {NoPayload} \cup {[settings |-> b] : b \in Blobs}

KeyPayloads ==
  {[state |-> 0], [settings |-> BlobIds]}
    \cup {[settings |-> b, state |-> s] : b \in Blobs, s \in {0, 1}}

\* EPLJSONUtils::GetIntByName: 0 when the key is absent
GetIntByName(j, k) == IF Has(j, k) THEN j[k] ELSE 0

--------------------------------------------------------------------------
(* Plugin helpers (AudioSwitcherStreamDeckPlugin.cpp) *)

Put(f, k, v) == [x \in DOMAIN f \cup {k} |-> IF x = k THEN v ELSE f[x]]
Remove(f, k) == [x \in DOMAIN f \ {k} |-> f[x]]

\* one call on the connection manager, the provider or the key injector
Call(op, ctx, val, slot) == [op |-> op, ctx |-> ctx, val |-> val, slot |-> slot]

\* a value-initialised Button, as mButtons[context] creates it
DefaultButton == [action |-> "", context |-> "", settings |-> DefaultButtonSettings]

\* std::recursive_mutex: the owner may lock again
CanLock(t, owner) == owner = "none" \/ owner = t

FillAudioDeviceInfoAnyDirection(di) ==
  IF di.id = "" THEN [filled |-> FALSE, di |-> di]
  ELSE IF di.displayName # "" THEN [filled |-> FALSE, di |-> di]
  ELSE IF di.id \notin DOMAIN devices THEN [filled |-> FALSE, di |-> di]
  ELSE [filled |-> TRUE, di |-> devices[di.id]]

FillAudioDeviceInfo(di) ==
  IF di.id = "" THEN [filled |-> FALSE, di |-> di]
  ELSE IF di.displayName # "" THEN [filled |-> FALSE, di |-> di]
  ELSE IF di.id \notin {i \in DOMAIN devices : devices[i].direction = di.direction}
       THEN [filled |-> FALSE, di |-> di]
  ELSE [filled |-> TRUE, di |-> devices[di.id]]

\* the settings after backfill and the SetSettings call, if any
FillButtonDeviceInfo(settings, context) ==
  LET p == FillAudioDeviceInfo(settings.primaryDevice)
      q == FillAudioDeviceInfo(settings.secondaryDevice)
  IN [settings |-> [settings EXCEPT !.primaryDevice = p.di, !.secondaryDevice = q.di],
      calls |-> IF p.filled \/ q.filled
                THEN <<Call("SetSettings", context, 0, "-")>> ELSE <<>>]

UpdateStateSetInverted(button, context, optionalDefaultDevice) ==
  LET settings == button.settings
      activeDevice == IF optionalDefaultDevice = ""
                      THEN GetDefaultAudioDeviceID(settings.direction, settings.role)
                      ELSE optionalDefaultDevice
      primaryID == VolatilePrimaryID(settings)
      secondaryID == VolatileSecondaryID(settings)
  IN IF button.action = SET_ACTION_ID
     THEN Call("SetState", context, IF activeDevice = primaryID THEN 1 ELSE 0, "-")
     ELSE IF activeDevice = primaryID THEN Call("SetState", context, 0, "-")
     ELSE IF activeDevice = secondaryID THEN Call("SetState", context, 1, "-")
     ELSE Call("ShowAlert", context, 0, "-")

\* the one call UpdateState makes for `button`
UpdateState(button, context, optionalDefaultDevice) ==
  LET settings == button.settings
      activeDevice == IF optionalDefaultDevice = ""
                      THEN GetDefaultAudioDeviceID(settings.direction, settings.role)
                      ELSE optionalDefaultDevice
      primaryID == VolatilePrimaryID(settings)
      secondaryID == VolatileSecondaryID(settings)
  IN IF button.action = SET_ACTION_ID
     THEN Call("SetState", context, IF activeDevice = primaryID THEN 0 ELSE 1, "-")
     ELSE IF activeDevice = primaryID THEN Call("SetState", context, 0, "-")
     ELSE IF activeDevice = secondaryID THEN Call("SetState", context, 1, "-")
     ELSE Call("ShowAlert", context, 0, "-")

TargetSlotNoFlip(inAction, state) ==
  IF state = 0 \/ inAction = SET_ACTION_ID THEN "primary" ELSE "secondary"

\* lines 132-134: which device slot a key press targets
TargetSlot(inAction, state) ==
  IF state # 0 \/ inAction = SET_ACTION_ID THEN "primary" ELSE "secondary"

HotkeySlotByStateOnly(inAction, state) ==
  IF state # 0 THEN "primary" ELSE "secondary"

\* lines 163-165: which hotkey a key press considers
HotkeySlot(inAction, state) ==
  IF state # 0 \/ inAction = SET_ACTION_ID THEN "primary" ELSE "secondary"

\* lines 143-146: what a key press reports when its target is not connected
DisconnectedCallsAnyAction(inAction, inContext) ==
  <<Call("SetState", inContext, 1, "-"), Call("ShowAlert", inContext, 0, "-")>>

DisconnectedCalls(inAction, inContext) ==
  (IF inAction = SET_ACTION_ID THEN <<Call("SetState", inContext, 1, "-")>> ELSE <<>>)
    \o <<Call("ShowAlert", inContext, 0, "-")>>

\* lines 150-152: the Set action finds its target already the default
AlreadyDefaultAnyRole(inAction, deviceID, settings) ==
  /\ inAction = SET_ACTION_ID
  /\ deviceID = GetDefaultAudioDeviceID(settings.direction, "DEFAULT")

AlreadyDefault(inAction, deviceID, settings) ==
  /\ inAction = SET_ACTION_ID
  /\ deviceID = GetDefaultAudioDeviceID(settings.direction, settings.role)

KeyUpSwitchNoStateCheck(inAction, inContext, settings, state) ==
  LET slot == TargetSlot(inAction, state)
      deviceID == IF slot = "primary" THEN VolatilePrimaryID(settings)
                  ELSE VolatileSecondaryID(settings)
      deviceState == GetAudioDeviceState(deviceID)
      hkSlot == HotkeySlot(inAction, state)
      hotkeyToUse == IF hkSlot = "primary" THEN settings.primaryHotkey
                     ELSE settings.secondaryHotkey
      base == [slot |-> slot, hkSlot |-> "-", deviceID |-> deviceID, deviceState |-> "-",
               setDefault |-> FALSE, calls |-> <<>>]
  IN IF deviceID = "" THEN base
     ELSE IF AlreadyDefault(inAction, deviceID, settings)
     THEN [base EXCEPT !.deviceState = deviceState,
             !.calls = <<Call("SetState", inContext, state, "-")>>]
     ELSE [base EXCEPT !.deviceState = deviceState, !.hkSlot = hkSlot,
             !.setDefault = TRUE,
             !.calls = <<Call("SetDefaultAudioDeviceID", inContext, 0, slot)>>
                       \o (IF hotkeyToUse.enabled /\ hotkeyToUse.keyCode # ""
                           THEN <<Call("TriggerHotkey", inContext, 0, hkSlot)>>
                           ELSE <<>>)]

KeyUpSwitchAnyHotkey(inAction, inContext, settings, state) ==
  LET slot == TargetSlot(inAction, state)
      deviceID == IF slot = "primary" THEN VolatilePrimaryID(settings)
                  ELSE VolatileSecondaryID(settings)
      deviceState == GetAudioDeviceState(deviceID)
      hkSlot == HotkeySlot(inAction, state)
      hotkeyToUse == IF hkSlot = "primary" THEN settings.primaryHotkey
                     ELSE settings.secondaryHotkey
      base == [slot |-> slot, hkSlot |-> "-", deviceID |-> deviceID, deviceState |-> "-",
               setDefault |-> FALSE, calls |-> <<>>]
  IN IF deviceID = "" THEN base
     ELSE IF deviceState # "CONNECTED"
     THEN [base EXCEPT !.deviceState = deviceState,
             !.calls = DisconnectedCalls(inAction, inContext)]
     ELSE IF AlreadyDefault(inAction, deviceID, settings)
     THEN [base EXCEPT !.deviceState = deviceState,
             !.calls = <<Call("SetState", inContext, state, "-")>>]
     ELSE [base EXCEPT !.deviceState = deviceState, !.hkSlot = hkSlot,
             !.setDefault = TRUE,
             !.calls = <<Call("SetDefaultAudioDeviceID", inContext, 0, slot)>>
                       \o (IF hotkeyToUse.keyCode # ""
                           THEN <<Call("TriggerHotkey", inContext, 0, hkSlot)>>
                           ELSE <<>>)]

\* lines 136-171 of KeyUpForAction: the calls made and the new OS default, if set
KeyUpSwitch(inAction, inContext, settings, state) ==
  LET slot == TargetSlot(inAction, state)
      deviceID == IF slot = "primary" THEN VolatilePrimaryID(settings)
                  ELSE VolatileSecondaryID(settings)
      deviceState == GetAudioDeviceState(deviceID)
      hkSlot == HotkeySlot(inAction, state)
      hotkeyToUse == IF hkSlot = "primary" THEN settings.primaryHotkey
                     ELSE settings.secondaryHotkey
      base == [slot |-> slot, hkSlot |-> "-", deviceID |-> deviceID, deviceState |-> "-",
               setDefault |-> FALSE, calls |-> <<>>]
  IN IF deviceID = "" THEN base
     ELSE IF deviceState # "CONNECTED"
     THEN [base EXCEPT !.deviceState = deviceState,
             !.calls = DisconnectedCalls(inAction, inContext)]
     ELSE IF AlreadyDefault(inAction, deviceID, settings)
     THEN [base EXCEPT !.deviceState = deviceState,
             !.calls = <<Call("SetState", inContext, state, "-")>>]
     ELSE [base EXCEPT !.deviceState = deviceState, !.hkSlot = hkSlot,
             !.setDefault = TRUE,
             !.calls = <<Call("SetDefaultAudioDeviceID", inContext, 0, slot)>>
                       \o (IF hotkeyToUse.enabled /\ hotkeyToUse.keyCode # ""
                           THEN <<Call("TriggerHotkey", inContext, 0, hkSlot)>>
                           ELSE <<>>)]

NoOut ==
  [event |-> "-", ctx |-> "-", action |-> "-", hasSettings |-> FALSE,
   noDirection |-> FALSE, state |-> 0, slot |-> "-",
   hkSlot |-> "-", deviceID |-> "", deviceState |-> "-", direction |-> "-",
   role |-> "-", defBefore |-> "", defAfter |-> "", setDefault |-> FALSE,
   calls |-> <<>>]

NoOs == [todo |-> <<>>, calls |-> <<>>]

Notification(direction, role, device) ==
  [direction |-> direction, role |-> role, device |-> device]

\* SetDefaultAudioDeviceID: the new defaults, and the notification the OS raises
\* (on its own thread) when the default actually changes
SetDefaultAudioDeviceID(direction, role, id) ==
  [osDefault |-> [osDefault EXCEPT ![<<direction, role>>] = id],
   pending |-> IF osDefault[<<direction, role>>] # id
               THEN Append(pending, Notification(direction, role, id))
               ELSE pending]

--------------------------------------------------------------------------
(* Host callbacks.  Each runs under mVisibleContextsMutex from its first
   statement; the step below takes the lock and runs the body, HostReturn
   leaves the scope of the scoped_lock. *)

KeyUpForAction(inAction, inContext, inPayload) ==
  /\ hostPc = "idle"
  /\ CanLock("host", lockOwner)
  /\ Len(pending) < MaxPending
  /\ lockOwner' = "host"
  /\ hostPc' = "inHandler"
  /\ IF ~Has(inPayload, "settings")
     THEN /\ out' = [NoOut EXCEPT !.event = "KeyUp", !.ctx = inContext,
                                  !.action = inAction]
          /\ UNCHANGED <<mButtons, osDefault, pending>>
     ELSE LET hadEntry == inContext \in DOMAIN mButtons
              old == IF hadEntry THEN mButtons[inContext] ELSE DefaultButton
              fill == FillButtonDeviceInfo(JsonGetButtonSettings(inPayload.settings),
                                           inContext)
              settings == fill.settings
              state == GetIntByName(inPayload, "state")
              sw == KeyUpSwitch(inAction, inContext, settings, state)
              set == IF sw.setDefault
                     THEN SetDefaultAudioDeviceID(settings.direction, settings.role,
                                                  sw.deviceID)
                     ELSE [osDefault |-> osDefault, pending |-> pending]
          IN /\ mButtons' = Put(mButtons, inContext, [old EXCEPT !.settings = settings])
             /\ osDefault' = set.osDefault
             /\ pending' = set.pending
             /\ out' = [event |-> "KeyUp", ctx |-> inContext, action |-> inAction,
                        hasSettings |-> TRUE,
                        noDirection |-> ~Has(inPayload.settings, "direction"),
                        state |-> state, slot |-> sw.slot,
                        hkSlot |-> sw.hkSlot, deviceID |-> sw.deviceID,
                        deviceState |-> sw.deviceState,
                        direction |-> settings.direction, role |-> settings.role,
                        defBefore |-> GetDefaultAudioDeviceID(settings.direction,
                                                              settings.role),
                        defAfter |-> set.osDefault[<<settings.direction, settings.role>>],
                        setDefault |-> sw.setDefault,
                        calls |-> fill.calls \o sw.calls]
  /\ UNCHANGED <<devices, osPc, os, rIn, rOut>>

\* the body WillAppearForAction and DidReceiveSettings share
WillAppearBody(event, inAction, inContext, inPayload) ==
  /\ hostPc = "idle"
  /\ CanLock("host", lockOwner)
  /\ lockOwner' = "host"
  /\ LET fresh == [action |-> inAction, context |-> inContext,
                   settings |-> DefaultButtonSettings]
         o == [NoOut EXCEPT !.event = event, !.ctx = inContext, !.action = inAction]
     IN IF ~Has(inPayload, "settings")
        THEN /\ mButtons' = Put(mButtons, inContext, fresh)
             /\ hostPc' = "inHandler"
             /\ out' = o
        ELSE LET decoded == JsonGetButtonSettings(inPayload.settings)
                 button == [fresh EXCEPT !.settings = decoded]
                 fill == FillButtonDeviceInfo(decoded, inContext)
                 o2 == [o EXCEPT !.hasSettings = TRUE,
                                 !.noDirection = ~Has(inPayload.settings, "direction"),
                                 !.direction = decoded.direction,
                                 !.role = decoded.role]
             IN IF CanLock("host", "host")
                THEN /\ mButtons' = Put(mButtons, inContext,
                                        [button EXCEPT !.settings = fill.settings])
                     /\ hostPc' = "inHandler"
                     /\ out' = [o2 EXCEPT !.calls =
                                  <<UpdateState(button, inContext, "")>> \o fill.calls]
                ELSE \* UpdateState waits for a mutex its own thread holds
                     /\ mButtons' = Put(mButtons, inContext, button)
                     /\ hostPc' = "blocked"
                     /\ out' = o2
  /\ UNCHANGED <<devices, osDefault, pending, osPc, os, rIn, rOut>>

WillAppearForAction(inAction, inContext, inPayload) ==
  WillAppearBody("WillAppear", inAction, inContext, inPayload)

DidReceiveSettings(inAction, inContext, inPayload) ==
  WillAppearBody("DidReceiveSettings", inAction, inContext, inPayload)

WillDisappearForAction(inAction, inContext) ==
  /\ hostPc = "idle"
  /\ CanLock("host", lockOwner)
  /\ lockOwner' = "host"
  /\ hostPc' = "inHandler"
  /\ mButtons' = Remove(mButtons, inContext)
  /\ out' = [NoOut EXCEPT !.event = "WillDisappear", !.ctx = inContext,
                          !.action = inAction]
  /\ UNCHANGED <<devices, osDefault, pending, osPc, os, rIn, rOut>>

HostReturnKeepsLock ==
  /\ hostPc = "inHandler"
  /\ hostPc' = "idle"
  /\ out' = NoOut
  /\ UNCHANGED <<devices, osDefault, pending, mButtons, lockOwner, osPc, os, rIn, rOut>>

\* the handler returns: the scoped_lock goes out of scope
HostReturn ==
  /\ hostPc = "inHandler"
  /\ hostPc' = "idle"
  /\ lockOwner' = "none"
  /\ out' = NoOut
  /\ UNCHANGED <<devices, osDefault, pending, mButtons, osPc, os, rIn, rOut>>

--------------------------------------------------------------------------
(* The notification thread: OnDefaultDeviceChanged *)

\* the OS calls the registered callback with the oldest notification, which
\* stays at the head of `pending` until the callback returns
OnDefaultDeviceChangedCall ==
  /\ osPc = "idle"
  /\ pending # <<>>
  /\ os' = NoOs
  /\ osPc' = "called"
  /\ UNCHANGED <<devices, osDefault, pending, mButtons, lockOwner, hostPc, out, rIn, rOut>>

OnDefaultDeviceChangedNoLock ==
  /\ osPc = "called"
  /\ os' = [os EXCEPT !.todo = SelectSeq(ContextOrder, LAMBDA c : c \in DOMAIN mButtons)]
  /\ osPc' = "iterating"
  /\ UNCHANGED <<devices, osDefault, pending, mButtons, lockOwner, hostPc, out, rIn, rOut>>

\* line 90: the scoped_lock; line 91: the iteration starts
OnDefaultDeviceChangedLock ==
  /\ osPc = "called"
  /\ CanLock("os", lockOwner)
  /\ lockOwner' = "os"
  /\ os' = [os EXCEPT !.todo = SelectSeq(ContextOrder, LAMBDA c : c \in DOMAIN mButtons)]
  /\ osPc' = "iterating"
  /\ UNCHANGED <<devices, osDefault, pending, mButtons, hostPc, out, rIn, rOut>>

\* lines 91-99: one turn of the loop
OnDefaultDeviceChangedStep ==
  /\ osPc = "iterating"
  /\ os.todo # <<>>
  /\ LET context == Head(os.todo)
         button == mButtons[context]
         direction == Head(pending).direction
         role == Head(pending).role
         device == Head(pending).device
     IN IF button.settings.direction # direction \/ button.settings.role # role
        THEN /\ os' = [os EXCEPT !.todo = Tail(os.todo)]
             /\ osPc' = osPc
        ELSE IF CanLock("os", lockOwner)
        THEN /\ os' = [os EXCEPT !.todo = Tail(os.todo),
                                 !.calls = Append(os.calls,
                                             UpdateState(button, context, device))]
             /\ osPc' = osPc
        ELSE /\ os' = os
             /\ osPc' = "blocked"
  /\ UNCHANGED <<devices, osDefault, pending, mButtons, lockOwner, hostPc, out, rIn, rOut>>

\* line 100: the callback returns and the lock is released
OnDefaultDeviceChangedReturn ==
  /\ osPc = "iterating"
  /\ os.todo = <<>>
  /\ osPc' = "idle"
  /\ lockOwner' = "none"
  /\ os' = NoOs
  /\ pending' = Tail(pending)
  /\ UNCHANGED <<devices, osDefault, mButtons, hostPc, out, rIn, rOut>>

--------------------------------------------------------------------------
(* The environment, between handler runs: the provider is read as a snapshot
   by each handler run *)

\* the OS changes a default out of band and raises the notification
OsDefaultChange(role, id) ==
  /\ hostPc = "idle"
  /\ osPc # "iterating"
  /\ Len(pending) < MaxPending
  /\ id # osDefault[<<"OUTPUT", role>>]
  /\ id = "" \/ (id \in DOMAIN devices /\ devices[id].state = "CONNECTED")
  /\ osDefault' = [osDefault EXCEPT ![<<"OUTPUT", role>>] = id]
  /\ pending' = Append(pending, Notification("OUTPUT", role, id))
  /\ UNCHANGED <<devices, mButtons, lockOwner, hostPc, osPc, os, out, rIn, rOut>>

\* devices are plugged, unplugged or re-enumerated
DeviceListChanged(live) ==
  /\ hostPc = "idle"
  /\ osPc # "iterating"
  /\ live # devices
  /\ devices' = live
  /\ UNCHANGED <<osDefault, pending, mButtons, lockOwner, hostPc,
                 osPc, os, out, rIn, rOut>>

--------------------------------------------------------------------------
(* The plugin under host events and OS notifications *)

Init ==
  /\ devices \in LiveSets
  /\ osDefault = [k \in Directions \X Roles |->
                    IF k[1] = "INPUT" THEN ""
                    ELSE IF devices["A"].state = "CONNECTED" THEN "A" ELSE "B"]
  /\ pending = <<>>
  /\ mButtons = [c \in {} |-> DefaultButton]
  /\ lockOwner = "none"
  /\ hostPc = "idle"
  /\ osPc = "idle"
  /\ os = NoOs
  /\ out = NoOut
  /\ rIn = "-"
  /\ rOut = "-"

Next ==
  \/ \E c \in Contexts, p \in KeyPayloads : KeyUpForAction(ActionOf[c], c, p)
  \/ \E c \in Contexts, p \in AppearPayloads : WillAppearForAction(ActionOf[c], c, p)
  \/ \E c \in Contexts, p \in AppearPayloads : DidReceiveSettings(ActionOf[c], c, p)
  \/ \E c \in Contexts : WillDisappearForAction(ActionOf[c], c)
  \/ HostReturn
  \/ OnDefaultDeviceChangedCall
  \/ OnDefaultDeviceChangedLock
  \/ OnDefaultDeviceChangedStep
  \/ OnDefaultDeviceChangedReturn
  \/ \E i \in {"", "C"} : OsDefaultChange("DEFAULT", i)
  \/ \E l \in LiveSets : DeviceListChanged(l)

Spec == Init /\ [][Next]_vars

\* a thread inside a handler keeps running; a thread waiting for the mutex gets
\* it if it is free again and again
FairSpec ==
  /\ Spec
  /\ WF_vars(HostReturn)
  /\ SF_vars(OnDefaultDeviceChangedLock)
  /\ WF_vars(OnDefaultDeviceChangedStep)
  /\ WF_vars(OnDefaultDeviceChangedReturn)

--------------------------------------------------------------------------
(* The resolver alone: a descriptor and a strategy against a device map *)

ResolveInterfaces == {<<"S">>, <<"2", "-", " ", "S">>, <<"H">>}
ResolveEndpoints == {"E", "F"}
ResolveStates == {"CONNECTED", "DEVICE_NOT_PRESENT"}

\* the descriptor's own id A: unknown, connected or unplugged; B and C: unknown,
\* or any device of either direction
ResolveOwn ==
  {[id |-> "A", interfaceName |-> <<"S">>, endpointName |-> "E", displayName |-> "S (E)",
    direction |-> "OUTPUT", state |-> st] : st \in ResolveStates}

ResolveOther(i) ==
  {[id |-> i, interfaceName |-> n, endpointName |-> e, displayName |-> "x",
    direction |-> d, state |-> st] :
     n \in ResolveInterfaces, e \in ResolveEndpoints, d \in Directions,
     st \in ResolveStates}

ResolveLiveSets ==
  {f \in UNION {[ids -> ResolveOwn \cup ResolveOther("B") \cup ResolveOther("C")] :
                  ids \in SUBSET {"A", "B", "C"}} :
     \A i \in DOMAIN f : f[i].id = i}

ResolveDescriptors ==
  {[id |-> i, interfaceName |-> n, endpointName |-> "E", displayName |-> "",
    direction |-> d, state |-> "CONNECTED"] :
     i \in {"", "A"}, n \in ResolveInterfaces, d \in Directions}

InitResolve ==
  /\ devices \in ResolveLiveSets
  /\ rIn \in [device : ResolveDescriptors, strategy : {"ID", "Fuzzy"}]
  /\ rOut = "?"
  /\ osDefault = [k \in Directions \X Roles |-> ""]
  /\ pending = <<>>
  /\ mButtons = [c \in {} |-> DefaultButton]
  /\ lockOwner = "none"
  /\ hostPc = "idle"
  /\ osPc = "idle"
  /\ os = NoOs
  /\ out = NoOut

Resolve ==
  /\ rOut = "?"
  /\ rOut' = GetVolatileID(rIn.device, rIn.strategy)
  /\ UNCHANGED <<devices, osDefault, pending, mButtons, lockOwner, hostPc, osPc, os,
                 out, rIn>>

\* settings whose two slots hold the descriptor, both hotkeys configured
ResolveSettings ==
  [DefaultButtonSettings EXCEPT !.direction = rIn.device.direction,
                                !.primaryDevice = rIn.device,
                                !.secondaryDevice = rIn.device,
                                !.matchStrategy = rIn.strategy,
                                !.primaryHotkey = HotkeyOn,
                                !.secondaryHotkey = HotkeyOn]

\* lines 132-171 of KeyUpForAction on these settings
ResolveKeyUp(inAction, state) ==
  /\ rOut # "?"
  /\ out = NoOut
  /\ LET sw == KeyUpSwitch(inAction, "c1", ResolveSettings, state)
     IN out' = [NoOut EXCEPT !.event = "KeyUp", !.ctx = "c1", !.action = inAction,
                             !.hasSettings = TRUE, !.state = state, !.slot = sw.slot,
                             !.hkSlot = sw.hkSlot, !.deviceID = sw.deviceID,
                             !.setDefault = sw.setDefault, !.calls = sw.calls]
  /\ UNCHANGED <<devices, osDefault, pending, mButtons, lockOwner, hostPc, osPc, os,
                 rIn, rOut>>

NextResolve ==
  \/ Resolve
  \/ \E a \in {SET_ACTION_ID, TOGGLE_ACTION_ID}, s \in {0, 1} : ResolveKeyUp(a, s)

SpecResolve == InitResolve /\ [][NextResolve]_vars

Position(i) == CHOOSE n \in 1..Len(DeviceOrder) : DeviceOrder[n] = i

\* a connected device of the descriptor's direction with an equal normalized
\* interface name and an equal endpoint name
Candidate(d, i) ==
  /\ i \in DOMAIN devices
  /\ devices[i].direction = d.direction
  /\ devices[i].state = "CONNECTED"
  /\ FuzzifyInterface(devices[i].interfaceName) = FuzzifyInterface(d.interfaceName)
  /\ devices[i].endpointName = d.endpointName

ExactHit(d) == d.id \in DOMAIN devices /\ devices[d.id].state = "CONNECTED"

\* C5: under Fuzzy with a non-empty id, resolve returns the descriptor's id when
\* it is live and Connected, otherwise the first candidate in the provider's
\* order, otherwise the descriptor's id; it returns the id of a device that is
\* not Connected only if that id is the descriptor's own.
C5_FuzzyResolve ==
  (rOut # "?" /\ rIn.strategy = "Fuzzy" /\ rIn.device.id # "") =>
    LET d == rIn.device
        some == \E i \in DOMAIN devices : Candidate(d, i)
    IN /\ ExactHit(d) => rOut = d.id
       /\ (~ExactHit(d) /\ some) =>
            /\ Candidate(d, rOut)
            /\ \A j \in DOMAIN devices : Candidate(d, j) => Position(rOut) <= Position(j)
       /\ (~ExactHit(d) /\ ~some) => rOut = d.id
       /\ rOut # d.id => (rOut \in DOMAIN devices /\ devices[rOut].state = "CONNECTED")

C5_Witness ==
  /\ rOut = "B"
  /\ rIn.strategy = "Fuzzy"
  /\ rIn.device.id = "A"
  /\ "A" \in DOMAIN devices
  /\ ~ExactHit(rIn.device)
  /\ Candidate(rIn.device, "B")
  /\ Candidate(rIn.device, "C")
  /\ devices["B"].interfaceName # rIn.device.interfaceName

--------------------------------------------------------------------------
(* Properties of a key press.  While the host thread is "inHandler" the
   handler has run and `out` holds what it did. *)

Pressed == hostPc = "inHandler" /\ out.event = "KeyUp" /\ out.hasSettings

CallsOf(op) == {i \in 1..Len(out.calls) : out.calls[i].op = op}

\* the slot the claims name for a press, and the id it resolves to now
ClaimedSlot ==
  IF out.action = SET_ACTION_ID \/ out.state # 0 THEN "primary" ELSE "secondary"

ClaimedTarget ==
  LET settings == mButtons[out.ctx].settings
  IN IF ClaimedSlot = "primary"
     THEN GetVolatileID(settings.primaryDevice, settings.matchStrategy)
     ELSE GetVolatileID(settings.secondaryDevice, settings.matchStrategy)

\* C1: a key press targets the primary device when the action is Set or the
\* reported state is non-zero, the secondary device only for Toggle with state
\* 0, and the hotkey it considers is the one of the same slot.
C1_TargetSlot ==
  Pressed =>
    /\ out.slot = ClaimedSlot
    /\ out.deviceID = ClaimedTarget
    /\ out.slot = "secondary" => (out.action = TOGGLE_ACTION_ID /\ out.state = 0)
    /\ out.hkSlot # "-" => out.hkSlot = out.slot
    /\ \A i \in CallsOf("TriggerHotkey") : out.calls[i].slot = out.slot

C1_Witness ==
  /\ Pressed
  /\ out.action = TOGGLE_ACTION_ID
  /\ out.state = 0
  /\ out.slot = "secondary"
  /\ CallsOf("TriggerHotkey") # {}

\* the Set action's target is connected and already the OS default
SetTargetAlreadyDefault ==
  /\ Pressed
  /\ out.action = SET_ACTION_ID
  /\ ClaimedTarget # ""
  /\ GetAudioDeviceState(ClaimedTarget) = "CONNECTED"
  /\ ClaimedTarget = out.defBefore

\* C2: a Set press whose target is connected and already the OS default for the
\* button's direction and role calls neither setDefaultDeviceId nor the key
\* injector and leaves the OS default as it was, whatever the primary hotkey is.
C2_SetIdempotent ==
  SetTargetAlreadyDefault =>
    /\ CallsOf("SetDefaultAudioDeviceID") = {}
    /\ CallsOf("TriggerHotkey") = {}
    /\ ~out.setDefault
    /\ out.defAfter = out.defBefore
    /\ osDefault[<<out.direction, out.role>>] = out.defBefore

C2_Witness ==
  /\ SetTargetAlreadyDefault
  /\ mButtons[out.ctx].settings.primaryHotkey.enabled
  /\ mButtons[out.ctx].settings.primaryHotkey.keyCode # ""

\* C3: in the Set short-circuit (here of a button that had appeared) the visual
\* state sent to the host is the one visual reconciliation reports for the live
\* default, which is 0, for either reported state of the payload.
C3_ShortCircuitReportsReality ==
  (SetTargetAlreadyDefault /\ mButtons[out.ctx].action = SET_ACTION_ID) =>
    /\ CallsOf("SetState") # {}
    /\ \A i \in CallsOf("SetState") :
         /\ out.calls[i].val = 0
         /\ out.calls[i] = UpdateState(mButtons[out.ctx], out.ctx, "")

\* the target of the press is configured but not connected
TargetDisconnected ==
  /\ Pressed
  /\ ClaimedTarget # ""
  /\ GetAudioDeviceState(ClaimedTarget) # "CONNECTED"

\* C4: a press whose target id is non-empty and not Connected shows the alert
\* exactly once, never sets the OS default and never injects a hotkey; Set also
\* reports visual state 1, Toggle reports no visual state.
C4_DisconnectedTarget ==
  TargetDisconnected =>
    /\ Cardinality(CallsOf("ShowAlert")) = 1
    /\ CallsOf("SetDefaultAudioDeviceID") = {}
    /\ CallsOf("TriggerHotkey") = {}
    /\ ~out.setDefault
    /\ out.defAfter = out.defBefore
    /\ out.action = SET_ACTION_ID =>
         /\ Cardinality(CallsOf("SetState")) = 1
         /\ \A i \in CallsOf("SetState") : out.calls[i].val = 1
    /\ out.action = TOGGLE_ACTION_ID => CallsOf("SetState") = {}

C4_Witness ==
  /\ TargetDisconnected
  /\ out.action = TOGGLE_ACTION_ID
  /\ out.state = 1

--------------------------------------------------------------------------
(* Properties of the default-device-changed broadcast.  When the loop of
   OnDefaultDeviceChanged is over and the callback has not yet returned, `os`
   holds the calls it made and the registry is the one it iterated over. *)

BroadcastDone == osPc = "iterating" /\ os.todo = <<>>

CallsFor(c) == SelectSeq(os.calls, LAMBDA k : k.ctx = c)

NewId == Head(pending).device

Addressed(c) ==
  /\ mButtons[c].settings.direction = Head(pending).direction
  /\ mButtons[c].settings.role = Head(pending).role

PrimaryIdOf(c) ==
  GetVolatileID(mButtons[c].settings.primaryDevice, mButtons[c].settings.matchStrategy)

SecondaryIdOf(c) ==
  GetVolatileID(mButtons[c].settings.secondaryDevice, mButtons[c].settings.matchStrategy)

\* state 0 / state 1 / alert, by the id taken as the active device
ThreeWay(c, active) ==
  IF active = PrimaryIdOf(c) THEN Call("SetState", c, 0, "-")
  ELSE IF active = SecondaryIdOf(c) THEN Call("SetState", c, 1, "-")
  ELSE Call("ShowAlert", c, 0, "-")

\* C6 as stated: on a default-device-changed(direction, role, newId) every
\* registered button of that direction and role gets exactly one update, state 0
\* if newId is its primary volatile id, state 1 if it is its secondary volatile
\* id, the alert otherwise, Set buttons included; other buttons get none.
C6_BroadcastAsStated ==
  BroadcastDone =>
    \A c \in DOMAIN mButtons :
      CallsFor(c) = IF Addressed(c) THEN <<ThreeWay(c, NewId)>> ELSE <<>>

\* the id UpdateState takes as active: newId, or the live default when it is empty
ActiveFor(c) ==
  IF NewId = ""
  THEN osDefault[<<mButtons[c].settings.direction, mButtons[c].settings.role>>]
  ELSE NewId

\* C6 amended: every registered button of that direction and role gets exactly
\* one update and the others none; with the active id being newId (the live OS
\* default when newId is empty), a Set button gets state 0 if the active id is
\* its primary volatile id and state 1 otherwise, never the alert; any other
\* button gets state 0 / state 1 / the alert as stated.
C6_BroadcastAmended ==
  BroadcastDone =>
    \A c \in DOMAIN mButtons :
      CallsFor(c) =
        IF ~Addressed(c) THEN <<>>
        ELSE IF mButtons[c].action = SET_ACTION_ID
        THEN <<Call("SetState", c, IF ActiveFor(c) = PrimaryIdOf(c) THEN 0 ELSE 1, "-")>>
        ELSE <<ThreeWay(c, ActiveFor(c))>>

C6_Witness ==
  /\ BroadcastDone
  /\ DOMAIN mButtons = Contexts
  /\ \A c \in Contexts : Addressed(c)
  /\ mButtons["c1"].action = SET_ACTION_ID
  /\ mButtons["c2"].action = TOGGLE_ACTION_ID
  /\ NewId # ""
  /\ NewId \notin {PrimaryIdOf("c1"), SecondaryIdOf("c1")}
  /\ SecondaryIdOf("c1") # ""
  /\ CallsFor("c1") = <<Call("SetState", "c1", 1, "-")>>
  /\ Len(CallsFor("c2")) = 1

--------------------------------------------------------------------------
(* Properties of the registry and its lock *)

HostStep == hostPc = "idle" /\ hostPc' # "idle"

\* C7: the registry is read and written only under mVisibleContextsMutex: a
\* thread inside a handler holds it, so the broadcast loop and a host handler
\* never overlap, and the registry does not change while the loop runs.
C7_RegistryUnderLock ==
  /\ [](/\ hostPc # "idle" => lockOwner = "host"
        /\ osPc \in {"iterating", "blocked"} => lockOwner = "os")
  /\ [][/\ mButtons' # mButtons => (HostStep /\ lockOwner' = "host" /\ osPc # "iterating")
        /\ (osPc = "iterating" /\ osPc' = "iterating") => mButtons' = mButtons]_vars

C7_Witness ==
  /\ osPc = "iterating"
  /\ os.calls # <<>>
  /\ os.todo # <<>>
  /\ lockOwner = "os"

C9_EntriesFollowLifecycle ==
  [][\A c \in Contexts :
       (c \in DOMAIN mButtons') <=>
         IF HostStep /\ out'.ctx = c /\ out'.event = "WillAppear" THEN TRUE
         ELSE IF HostStep /\ out'.ctx = c /\ out'.event = "WillDisappear" THEN FALSE
         ELSE c \in DOMAIN mButtons]_vars

\* C10: a settings-received event or a key press whose settings blob has no
\* direction field leaves the settings stored for that context as they were.
C10_NoDirectionKeepsSettings ==
  [][(/\ HostStep
      /\ out'.event \in {"DidReceiveSettings", "KeyUp"}
      /\ out'.hasSettings
      /\ out'.noDirection
      /\ out'.ctx \in DOMAIN mButtons)
     => mButtons'[out'.ctx].settings = mButtons[out'.ctx].settings]_vars

--------------------------------------------------------------------------
(* The settings codec alone: a settings blob is decoded as the handlers decode
   it (`settings = inPayload.at("settings")`) and encoded again as
   FillButtonDeviceInfo encodes it (`json(settings)`).  rIn.blob is the JSON
   object; rIn.numberAt is the set of paths <<object key, field>> at which the
   JSON value is a number, whatever rIn.blob shows there. *)

HotkeyFields == {"enabled", "ctrl", "alt", "shift", "win", "keyCode"}

LegacyOf ==
  [f \in HotkeyFields |->
     CASE f = "enabled" -> "hotkeyEnabled"
       [] f = "ctrl" -> "hotkeyCtrl"
       [] f = "alt" -> "hotkeyAlt"
       [] f = "shift" -> "hotkeyShift"
       [] f = "win" -> "hotkeyWin"
       [] f = "keyCode" -> "hotkeyKey"]

LegacyHotkeyFields == {LegacyOf[f] : f \in HotkeyFields}

to_json_HotkeyConfig(hk) ==
  [enabled |-> hk.enabled, ctrl |-> hk.ctrl, alt |-> hk.alt, shift |-> hk.shift,
   win |-> hk.win, keyCode |-> hk.keyCode]

\* audio_json.h: the descriptor as a JSON object
to_json_AudioDeviceInfo(di) ==
  Obj([id |-> di.id, interfaceName |-> di.interfaceName,
       endpointName |-> di.endpointName, displayName |-> di.displayName,
       direction |-> di.direction, state |-> di.state])

to_json_ButtonSettingsLegacy(bs) ==
  [direction |-> bs.direction, role |-> bs.role,
   primary |-> to_json_AudioDeviceInfo(bs.primaryDevice),
   secondary |-> to_json_AudioDeviceInfo(bs.secondaryDevice),
   matchStrategy |-> bs.matchStrategy,
   hotkey |-> to_json_HotkeyConfig(bs.primaryHotkey),
   secondaryHotkey |-> to_json_HotkeyConfig(bs.secondaryHotkey)]

to_json_ButtonSettings(bs) ==
  [direction |-> bs.direction, role |-> bs.role,
   primary |-> to_json_AudioDeviceInfo(bs.primaryDevice),
   secondary |-> to_json_AudioDeviceInfo(bs.secondaryDevice),
   matchStrategy |-> bs.matchStrategy,
   primaryHotkey |-> to_json_HotkeyConfig(bs.primaryHotkey),
   secondaryHotkey |-> to_json_HotkeyConfig(bs.secondaryHotkey)]

\* the key from_json(HotkeyConfig) converts for each field: the canonical one if
\* the object contains it, else the alias if the object contains it
HotkeyKeysRead(j) ==
  {IF Has(j, f) THEN f ELSE LegacyOf[f] :
     f \in {g \in HotkeyFields : Has(j, g) \/ Has(j, LegacyOf[g])}}

\* the paths of the blob whose values from_json(ButtonSettings) converts to
\* bool or std::string
HotkeyPathsRead(j) ==
  IF ~Has(j, "direction") THEN {}
  ELSE (IF Has(j, "primaryHotkey")
        THEN {<<"primaryHotkey", k>> : k \in HotkeyKeysRead(j.primaryHotkey)}
        ELSE IF Has(j, "hotkey")
        THEN {<<"hotkey", k>> : k \in HotkeyKeysRead(j.hotkey)}
        ELSE {})
       \cup (IF Has(j, "secondaryHotkey")
             THEN {<<"secondaryHotkey", k>> : k \in HotkeyKeysRead(j.secondaryHotkey)}
             ELSE {})

\* nlohmann's conversion of a JSON number to bool or std::string throws
\* type_error 302
JsonTypeError(j, numberAt) == HotkeyPathsRead(j) \cap numberAt # {}

(* inputs *)

DecodeHotkeyValues ==
  [enabled : BOOLEAN, hotkeyEnabled : BOOLEAN, ctrl : BOOLEAN, hotkeyCtrl : {TRUE},
   alt : {TRUE}, hotkeyAlt : {FALSE}, shift : {FALSE}, hotkeyShift : {TRUE},
   win : {FALSE}, hotkeyWin : {TRUE}, keyCode : {"B", ""}, hotkeyKey : {"A"}]

DecodeHotkeyKeySets ==
  {K \cup X : K \in SUBSET {"enabled", "hotkeyEnabled", "ctrl", "hotkeyCtrl",
                            "keyCode", "hotkeyKey"},
              X \in {{}, {"alt", "hotkeyAlt", "hotkeyShift", "hotkeyWin"}}}

\* hotkey objects with any mix of canonical and legacy fields
DecodeHotkeys == {[k \in K |-> v[k]] : K \in DecodeHotkeyKeySets, v \in DecodeHotkeyValues}

\* hotkey objects with every canonical field, with or without legacy fields too
FullHotkeys ==
  {[k \in HotkeyFields \cup X |-> v[k]] :
     X \in {{}, LegacyHotkeyFields}, v \in DecodeHotkeyValues}

FewHotkeys == {HotkeyOn, [hotkeyEnabled |-> TRUE, hotkeyKey |-> "A"]}

DecodeDescriptors ==
  {DevA, Gone(DevB), [DevC EXCEPT !.displayName = "", !.direction = "INPUT"]}

\* fully-populated canonical blobs, with or without the legacy `hotkey` as well
FullBlobs ==
  {[k \in {"direction", "role", "primary", "secondary", "matchStrategy",
           "primaryHotkey", "secondaryHotkey"} \cup X |->
      CASE k = "direction" -> d
        [] k = "role" -> r
        [] k = "primary" -> Obj(p)
        [] k = "secondary" -> Obj(DevC)
        [] k = "matchStrategy" -> m
        [] k = "primaryHotkey" -> h
        [] k = "secondaryHotkey" -> h2
        [] k = "hotkey" -> [hotkeyEnabled |-> ~h.enabled, hotkeyKey |-> "A"]] :
     d \in Directions, r \in Roles, p \in DecodeDescriptors, m \in {"ID", "Fuzzy"},
     h \in FullHotkeys, h2 \in {HotkeyOn, DefaultHotkeyConfig},
     X \in {{}, {"hotkey"}}}

\* blobs whose hotkeys come in canonical, legacy and mixed forms
LegacyBlobs ==
  {[direction |-> "OUTPUT", primaryHotkey |-> h] : h \in DecodeHotkeys}
    \cup {[direction |-> "OUTPUT", hotkey |-> h] : h \in DecodeHotkeys}
    \cup {[direction |-> "OUTPUT", secondaryHotkey |-> h] : h \in DecodeHotkeys}
    \cup {[direction |-> "OUTPUT", primaryHotkey |-> h, hotkey |-> g] :
            h \in DecodeHotkeys, g \in FewHotkeys}
    \cup {[direction |-> "OUTPUT", hotkey |-> h, secondaryHotkey |-> g] :
            h \in DecodeHotkeys, g \in FewHotkeys}
    \cup {[hotkey |-> g] : g \in FewHotkeys}
    \cup {[primaryHotkey |-> g, secondaryHotkey |-> g] : g \in FewHotkeys}

HotkeyPaths ==
  {"primaryHotkey", "hotkey", "secondaryHotkey"} \X (HotkeyFields \cup LegacyHotkeyFields)

\* blobs of which one value is a number
IllTypedBlobs ==
  {[direction |-> "OUTPUT", primaryHotkey |-> HotkeyOn, hotkey |-> HotkeyOn,
    secondaryHotkey |-> HotkeyOn],
   [direction |-> "OUTPUT",
    hotkey |-> [hotkeyEnabled |-> TRUE, hotkeyKey |-> "A", enabled |-> TRUE],
    secondaryHotkey |-> [hotkeyEnabled |-> TRUE, hotkeyKey |-> "A"]],
   [hotkey |-> HotkeyOn]}

\* descriptors as string ids and as objects, known and unknown to the provider,
\* with and without a display name, of either direction
BackfillDescriptors ==
  {StrId(""), StrId("A"), StrId("B"), StrId("Z"), Obj(DevA),
   Obj([DevB EXCEPT !.displayName = ""]),
   Obj([DevA EXCEPT !.displayName = "", !.direction = "INPUT"])}

BackfillBlobs ==
  {[direction |-> d, primary |-> p, secondary |-> q] :
     d \in Directions, p \in BackfillDescriptors, q \in BackfillDescriptors}

DecodeInputs ==
  {[blob |-> b, numberAt |-> {}] :
     b \in FullBlobs \cup LegacyBlobs \cup BackfillBlobs \cup Blobs}
    \cup {[blob |-> b, numberAt |-> {p}] : b \in IllTypedBlobs, p \in HotkeyPaths}

NotDecoded == [done |-> FALSE]

InitDecode ==
  /\ rIn \in DecodeInputs
  /\ rOut = NotDecoded
  /\ devices \in LiveSets
  /\ osDefault = [k \in Directions \X Roles |-> ""]
  /\ pending = <<>>
  /\ mButtons = [c \in {} |-> DefaultButton]
  /\ lockOwner = "none"
  /\ hostPc = "idle"
  /\ osPc = "idle"
  /\ os = NoOs
  /\ out = NoOut

\* lines 122-125 (and 188-191): the blob is decoded and the descriptors are
\* backfilled; `json` is the decoded value encoded again.  No handler has a try
\* block around the decode.
DecodeSettings ==
  /\ ~rOut.done
  /\ rOut' = IF JsonTypeError(rIn.blob, rIn.numberAt)
             THEN [done |-> TRUE, threw |-> TRUE]
             ELSE LET settings == JsonGetButtonSettings(rIn.blob)
                  IN [done |-> TRUE, threw |-> FALSE, settings |-> settings,
                      json |-> to_json_ButtonSettings(settings),
                      fill |-> FillButtonDeviceInfo(settings, "c1")]
  /\ UNCHANGED <<devices, osDefault, pending, mButtons, lockOwner, hostPc, osPc, os,
                 out, rIn>>

SpecDecode == InitDecode /\ [][DecodeSettings]_vars

Decoded == rOut.done /\ ~rOut.threw

CanonicalFields ==
  {"direction", "role", "primary", "secondary", "matchStrategy", "primaryHotkey",
   "secondaryHotkey"}

FullyPopulated(j) ==
  /\ CanonicalFields \subseteq DOMAIN j
  /\ j.primary.kind = "object"
  /\ j.secondary.kind = "object"
  /\ HotkeyFields \subseteq DOMAIN j.primaryHotkey
  /\ HotkeyFields \subseteq DOMAIN j.secondaryHotkey

ClaimedHotkey(j) ==
  [f \in HotkeyFields |->
     IF f \in DOMAIN j THEN j[f]
     ELSE IF LegacyOf[f] \in DOMAIN j THEN j[LegacyOf[f]]
     ELSE DefaultHotkeyConfig[f]]

ClaimedHotkeys(j) ==
  /\ \A f \in HotkeyFields :
       rOut.settings.primaryHotkey[f] =
         IF "primaryHotkey" \in DOMAIN j THEN ClaimedHotkey(j.primaryHotkey)[f]
         ELSE IF "hotkey" \in DOMAIN j THEN ClaimedHotkey(j.hotkey)[f]
         ELSE DefaultHotkeyConfig[f]
  /\ \A f \in HotkeyFields :
       rOut.settings.secondaryHotkey[f] =
         IF "secondaryHotkey" \in DOMAIN j THEN ClaimedHotkey(j.secondaryHotkey)[f]
         ELSE DefaultHotkeyConfig[f]

\* C12 as stated: every decoded blob (also one carrying only a legacy hotkey
\* and nothing else) has each field of the primary hotkey from `primaryHotkey`,
\* else from `hotkey`, canonical field first, then alias, then default, and the
\* secondary hotkey from `secondaryHotkey` only.
C12_LegacyAliasesAsStated == Decoded => ClaimedHotkeys(rIn.blob)

\* C12 amended: the same for every blob that has a `direction` field; a blob
\* without one decodes to default hotkeys whatever it carries.
C12_LegacyAliasesAmended ==
  Decoded =>
    IF Has(rIn.blob, "direction") THEN ClaimedHotkeys(rIn.blob)
    ELSE /\ rOut.settings.primaryHotkey = DefaultHotkeyConfig
         /\ rOut.settings.secondaryHotkey = DefaultHotkeyConfig

C12_Witness ==
  /\ Decoded
  /\ rIn.blob = [direction |-> "OUTPUT", hotkey |-> [hotkeyEnabled |-> TRUE, hotkeyKey |-> "A"]]
  /\ rOut.settings.primaryHotkey.enabled
  /\ rOut.settings.primaryHotkey.keyCode = "A"
  /\ ~rOut.settings.secondaryHotkey.enabled

\* the descriptor names a live device of its own direction and has no display name
NeedsBackfill(d) ==
  /\ d.id # ""
  /\ d.displayName = ""
  /\ \E i \in DOMAIN devices : i = d.id /\ devices[i].direction = d.direction

Persisted == {i \in 1..Len(rOut.fill.calls) : rOut.fill.calls[i].op = "SetSettings"}

\* C13: after a decode, persistSettings is signalled for the context exactly
\* when one of the two decoded descriptors has a non-empty id, an empty display
\* name and a live device with that id in the descriptor's direction; such a
\* descriptor becomes the live record, any other descriptor and every other
\* field stay as decoded, and the signal is sent at most once.
C13_Backfill ==
  Decoded =>
    LET p == rOut.settings.primaryDevice
        q == rOut.settings.secondaryDevice
        after == rOut.fill.settings
    IN /\ Cardinality(Persisted) = IF NeedsBackfill(p) \/ NeedsBackfill(q) THEN 1 ELSE 0
       /\ \A i \in Persisted : rOut.fill.calls[i].ctx = "c1"
       /\ after.primaryDevice = IF NeedsBackfill(p) THEN devices[p.id] ELSE p
       /\ after.secondaryDevice = IF NeedsBackfill(q) THEN devices[q.id] ELSE q
       /\ after = [rOut.settings EXCEPT !.primaryDevice = after.primaryDevice,
                                        !.secondaryDevice = after.secondaryDevice]

C13_Witness ==
  /\ Decoded
  /\ rOut.settings.primaryDevice.id = "A"
  /\ rOut.settings.primaryDevice.displayName = ""
  /\ rOut.settings.primaryDevice.direction = "INPUT"
  /\ ~NeedsBackfill(rOut.settings.primaryDevice)
  /\ NeedsBackfill(rOut.settings.secondaryDevice)
  /\ rOut.fill.settings.secondaryDevice = DevB
  /\ rOut.fill.settings.primaryDevice = rOut.settings.primaryDevice
  /\ Cardinality(Persisted) = 1

--------------------------------------------------------------------------
(* Properties of the resolver (SpecResolve) *)

\* C14: a descriptor with an empty id resolves to the empty id under both
\* strategies and every device map, and a key press whose chosen slot resolves
\* to the empty id makes no call at all: no SetState, no ShowAlert, no
\* SetDefaultAudioDeviceID, no TriggerHotkey.
C14_EmptyIdIsNoOp ==
  /\ (rOut # "?" /\ rIn.device.id = "") => rOut = ""
  /\ (out.event = "KeyUp" /\ out.deviceID = "") =>
       /\ out.calls = <<>>
       /\ ~out.setDefault

C14_Witness ==
  /\ out.event = "KeyUp"
  /\ rIn.strategy = "Fuzzy"
  /\ rIn.device.id = ""
  /\ \E i \in DOMAIN devices : Candidate(rIn.device, i)
  /\ rOut = ""
  /\ out.deviceID = ""
  /\ out.calls = <<>>

\* C15: under the ID strategy the resolver returns the descriptor's id as it
\* is, whether or not a device has that id, whatever that device's state, and
\* whatever other device would match by name.
C15_ExactIdPassthrough ==
  (rOut # "?" /\ rIn.strategy = "ID") => rOut = rIn.device.id

C15_Witness ==
  /\ rOut = "A"
  /\ rIn.strategy = "ID"
  /\ rIn.device.id = "A"
  /\ "A" \in DOMAIN devices
  /\ devices["A"].state # "CONNECTED"
  /\ Candidate(rIn.device, "B")

--------------------------------------------------------------------------
(* FuzzifyInterface alone *)

NameAlphabet == {"2", "7", "-", " ", "S", "\n"}

FuzzifyNames == UNION {[1..n -> NameAlphabet] : n \in 0..MaxNameLen}

InitFuzzify ==
  /\ rIn \in FuzzifyNames
  /\ rOut = NotDecoded
  /\ devices \in {[i \in {} |-> DevA]}
  /\ osDefault = [k \in Directions \X Roles |-> ""]
  /\ pending = <<>>
  /\ mButtons = [c \in {} |-> DefaultButton]
  /\ lockOwner = "none"
  /\ hostPc = "idle"
  /\ osPc = "idle"
  /\ os = NoOs
  /\ out = NoOut

Fuzzify ==
  /\ ~rOut.done
  /\ rOut' = [done |-> TRUE, name |-> FuzzifyInterface(rIn)]
  /\ UNCHANGED <<devices, osDefault, pending, mButtons, lockOwner, hostPc, osPc, os,
                 out, rIn>>

SpecFuzzify == InitFuzzify /\ [][Fuzzify]_vars

\* name is n digits, "- " and a non-empty remainder
OrdinalPrefix(name, n) ==
  /\ n >= 1
  /\ Len(name) > n + 2
  /\ \A i \in 1..n : IsDigit(name[i])
  /\ name[n + 1] = "-"
  /\ name[n + 2] = " "

Remainder(name, n) == [i \in 1..(Len(name) - n - 2) |-> name[i + n + 2]]

\* C16 as stated: every name of one or more digits, "- " and a remainder is
\* mapped to the remainder, every other name to itself.
C16_NormalizeAsStated ==
  rOut.done =>
    /\ \A n \in 1..Len(rIn) : OrdinalPrefix(rIn, n) => rOut.name = Remainder(rIn, n)
    /\ (~\E n \in 1..Len(rIn) : OrdinalPrefix(rIn, n)) => rOut.name = rIn

\* C16 amended: a name of one or more digits, "- " and a non-empty remainder
\* is mapped to the remainder if the remainder has no line terminator; every
\* other name, also one with an ordinal prefix before a remainder that holds a
\* line terminator, is mapped to itself.
C16_NormalizeAmended ==
  rOut.done =>
    /\ \A n \in 1..Len(rIn) :
         OrdinalPrefix(rIn, n) =>
           rOut.name = IF \A i \in (n + 3)..Len(rIn) : rIn[i] \notin {"\n", "\r"}
                       THEN Remainder(rIn, n) ELSE rIn
    /\ (~\E n \in 1..Len(rIn) : OrdinalPrefix(rIn, n)) => rOut.name = rIn

C16_Witness ==
  /\ rOut.done
  /\ rIn = <<"2", "-", " ", "S">>
  /\ rOut.name = <<"S">>
  /\ FuzzifyInterface(<<"S">>) = <<"S">>

--------------------------------------------------------------------------
(* The key injector alone: TriggerHotkey (AudioSwitcherStreamDeckPlugin.cpp).
   Here a key string is a tuple of one-character strings, a key code is the
   number the code computes, and an event is one element of the inputs array
   (Windows) or one posted CGEvent (macOS). *)

\* INPUT inputs[10]
InputsSize == 10

VK_TAB == 9
VK_RETURN == 13
VK_SHIFT == 16
VK_CONTROL == 17
VK_MENU == 18
VK_ESCAPE == 27
VK_SPACE == 32
VK_LWIN == 91
VK_F1 == 112

Platforms == {"windows", "macos", "other"}

UpperCase ==
  <<"A", "B", "C", "D", "E", "F", "G", "H", "I", "J", "K", "L", "M", "N", "O", "P",
    "Q", "R", "S", "T", "U", "V", "W", "X", "Y", "Z">>

DigitChars == <<"0", "1", "2", "3", "4", "5", "6", "7", "8", "9">>

IndexIn(seq, c) == CHOOSE i \in 1..Len(seq) : seq[i] = c

IsUpper(c) == \E i \in 1..Len(UpperCase) : UpperCase[i] = c

\* the character code of a capital letter or a digit
Ascii(c) == IF IsUpper(c) THEN 64 + IndexIn(UpperCase, c) ELSE 47 + IndexIn(DigitChars, c)

\* std::stoi on a string of at most two characters: leading digits are the
\* value, junk after them is ignored, no leading digit is std::invalid_argument
stoi(str) ==
  LET n == DigitPrefixLen(str)
      d(i) == IndexIn(DigitChars, str[i]) - 1
  IN IF n = 0 THEN [threw |-> TRUE, value |-> 0]
     ELSE IF n = 1 THEN [threw |-> FALSE, value |-> d(1)]
     ELSE [threw |-> FALSE, value |-> 10 * d(1) + d(2)]

\* VkKeyScanA: the virtual-key code of the key that types the character on the
\* current layout, or -1 if no key does
VkKeyScanA(c) ==
  IF IsUpper(c) \/ IsDigit(c) THEN Ascii(c)
  ELSE IF c = "a" THEN Ascii("A")
  ELSE -1

KEY_SPACE == <<"S", "P", "A", "C", "E">>
KEY_ENTER == <<"E", "N", "T", "E", "R">>
KEY_RETURN == <<"R", "E", "T", "U", "R", "N">>
KEY_ESCAPE == <<"E", "S", "C", "A", "P", "E">>
KEY_ESC == <<"E", "S", "C">>
KEY_TAB == <<"T", "A", "B">>

\* lines 332-483: 0 when the key string gives no virtual-key code
WindowsVkCode(keyCode) ==
  IF Len(keyCode) = 1
  THEN IF VkKeyScanA(keyCode[1]) # -1 THEN VkKeyScanA(keyCode[1]) ELSE 0
  ELSE IF keyCode[1] = "F" /\ Len(keyCode) <= 3
  THEN LET fKey == stoi(Tail(keyCode))
       IN IF ~fKey.threw /\ fKey.value >= 1 /\ fKey.value <= 24
          THEN VK_F1 + (fKey.value - 1) ELSE 0
  ELSE IF keyCode = KEY_SPACE THEN VK_SPACE
  ELSE IF keyCode = KEY_ENTER \/ keyCode = KEY_RETURN THEN VK_RETURN
  ELSE IF keyCode = KEY_ESCAPE \/ keyCode = KEY_ESC THEN VK_ESCAPE
  ELSE IF keyCode = KEY_TAB THEN VK_TAB
  ELSE IF IsUpper(keyCode[1]) \/ IsDigit(keyCode[1]) THEN Ascii(keyCode[1])
  ELSE 0

KeyDown(code) == [code |-> code, up |-> FALSE, flags |-> {}]

KeyUp(input) == [input EXCEPT !.up = TRUE]

\* lines 308-327
WindowsModifiers(hotkey) ==
  (IF hotkey.ctrl THEN <<KeyDown(VK_CONTROL)>> ELSE <<>>)
    \o (IF hotkey.alt THEN <<KeyDown(VK_MENU)>> ELSE <<>>)
    \o (IF hotkey.shift THEN <<KeyDown(VK_SHIFT)>> ELSE <<>>)
    \o (IF hotkey.win THEN <<KeyDown(VK_LWIN)>> ELSE <<>>)

WindowsReleasesForward(inputs) == [j \in 1..Len(inputs) |-> KeyUp(inputs[j])]

\* lines 489-500: the key, then inputs[inputCount - 3] down to inputs[0]
WindowsReleases(inputs) ==
  [j \in 1..Len(inputs) |-> KeyUp(inputs[Len(inputs) + 1 - j])]

\* the array handed to SendInput, or nothing
TriggerHotkeyWindows(hotkey) ==
  LET vkCode == WindowsVkCode(hotkey.keyCode)
      inputs == WindowsModifiers(hotkey) \o <<KeyDown(vkCode % 256)>>
  IN [threw |-> FALSE,
      events |-> IF vkCode # 0 THEN inputs \o WindowsReleases(inputs) ELSE <<>>]

fKeyCodes == <<122, 120, 99, 118, 96, 97, 98, 100, 101, 109, 103, 111>>

\* lines 516-533: the CGKeyCode and whether std::stoi threw (there is no try)
MacKeyCode(keyCode) ==
  IF Len(keyCode) = 1
  THEN [threw |-> FALSE,
        code |-> IF IsUpper(keyCode[1]) THEN Ascii(keyCode[1]) - Ascii("A") ELSE 0]
  ELSE IF keyCode[1] = "F" /\ Len(keyCode) <= 3
  THEN LET fKey == stoi(Tail(keyCode))
       IN [threw |-> fKey.threw,
           code |-> IF ~fKey.threw /\ fKey.value >= 1 /\ fKey.value <= 12
                    THEN fKeyCodes[fKey.value] ELSE 0]
  ELSE [threw |-> FALSE, code |-> 0]

MacFlags(hotkey) ==
  (IF hotkey.ctrl THEN {"Control"} ELSE {})
    \cup (IF hotkey.alt THEN {"Alternate"} ELSE {})
    \cup (IF hotkey.shift THEN {"Shift"} ELSE {})
    \cup (IF hotkey.win THEN {"Command"} ELSE {})

\* lines 535-565: a key-down and a key-up event carrying the modifier flags
TriggerHotkeyMac(hotkey) ==
  LET k == MacKeyCode(hotkey.keyCode)
      down == [code |-> k.code, up |-> FALSE, flags |-> MacFlags(hotkey)]
  IN [threw |-> k.threw,
      events |-> IF ~k.threw /\ k.code # 0 THEN <<down, KeyUp(down)>> ELSE <<>>]

TriggerHotkey(platform, hotkey) ==
  IF ~hotkey.enabled \/ hotkey.keyCode = <<>> THEN [threw |-> FALSE, events |-> <<>>]
  ELSE IF platform = "windows" THEN TriggerHotkeyWindows(hotkey)
  ELSE IF platform = "macos" THEN TriggerHotkeyMac(hotkey)
  ELSE [threw |-> FALSE, events |-> <<>>]

(* inputs *)

FunctionKeyNames ==
  {<<"F", DigitChars[n + 1]>> : n \in 1..9}
    \cup {<<"F", DigitChars[(n \div 10) + 1], DigitChars[(n % 10) + 1]>> : n \in 10..24}

NamedKeys == {KEY_SPACE, KEY_ENTER, KEY_RETURN, KEY_ESCAPE, KEY_ESC, KEY_TAB}

OtherKeyStrings ==
  {<<>>, <<"A">>, <<"B">>, <<"Z">>, <<"a">>, <<"1">>, <<"#">>,
   <<"F", "0">>, <<"F", "2", "5">>, <<"F", "9", "9">>, <<"F", "1", "x">>,
   <<"F", "x">>, <<"F", "O", "O">>, <<"F", "1", "2", "3">>,
   <<"A", "P", "P", "L", "E">>, <<"H", "O", "M", "E">>, <<"s", "p", "a", "c", "e">>,
   <<"#", "1">>, <<"1", "0">>}

KeyStrings == FunctionKeyNames \cup NamedKeys \cup OtherKeyStrings

HotkeyInputs ==
  [enabled : BOOLEAN, ctrl : BOOLEAN, alt : BOOLEAN, shift : BOOLEAN, win : BOOLEAN,
   keyCode : KeyStrings]

InitHotkey ==
  /\ rIn \in [platform : Platforms, hotkey : HotkeyInputs]
  /\ rOut = NotDecoded
  /\ devices \in {[i \in {} |-> DevA]}
  /\ osDefault = [k \in Directions \X Roles |-> ""]
  /\ pending = <<>>
  /\ mButtons = [c \in {} |-> DefaultButton]
  /\ lockOwner = "none"
  /\ hostPc = "idle"
  /\ osPc = "idle"
  /\ os = NoOs
  /\ out = NoOut

TriggerHotkeyCall ==
  /\ ~rOut.done
  /\ LET r == TriggerHotkey(rIn.platform, rIn.hotkey)
     IN rOut' = [done |-> TRUE, threw |-> r.threw, events |-> r.events]
  /\ UNCHANGED <<devices, osDefault, pending, mButtons, lockOwner, hostPc, osPc, os,
                 out, rIn>>

SpecHotkey == InitHotkey /\ [][TriggerHotkeyCall]_vars

\* the key names the claims call resolvable
ResolvableName(keyCode) ==
  \/ Len(keyCode) = 1
  \/ keyCode \in FunctionKeyNames
  \/ keyCode \in NamedKeys

Injected == rOut.done /\ rIn.hotkey.enabled /\ rIn.hotkey.keyCode # <<>>

\* C17: for a key string that is no single character, no function-key name
\* (F1..F24) and none of SPACE, ENTER, RETURN, ESCAPE, ESC, TAB, TriggerHotkey
\* emits no event, modifier presses included, and returns normally.
C17_UnknownKeyIsNoOp ==
  (Injected /\ ~ResolvableName(rIn.hotkey.keyCode)) =>
    /\ ~rOut.threw
    /\ rOut.events = <<>>

\* the platform's lookup gave a key code
KeyResolved ==
  \/ rIn.platform = "windows" /\ WindowsVkCode(rIn.hotkey.keyCode) # 0
  \/ /\ rIn.platform = "macos"
     /\ ~MacKeyCode(rIn.hotkey.keyCode).threw
     /\ MacKeyCode(rIn.hotkey.keyCode).code # 0

\* the enabled modifiers in the order ctrl, alt, shift, meta
ClaimedModifiers ==
  SelectSeq(<<"ctrl", "alt", "shift", "win">>, LAMBDA m : rIn.hotkey[m])

ModifierCode(m) ==
  CASE m = "ctrl" -> VK_CONTROL
    [] m = "alt" -> VK_MENU
    [] m = "shift" -> VK_SHIFT
    [] m = "win" -> VK_LWIN

\* presses of the modifiers, then of the key, then the releases in reverse
\* order, each pressed key released once, within the inputs array
PressesThenReleases ==
  LET e == rOut.events
      n == Len(ClaimedModifiers)
  IN /\ Len(e) = 2 * (n + 1)
     /\ Len(e) <= InputsSize
     /\ \A i \in 1..(n + 1) : ~e[i].up /\ e[2 * (n + 1) + 1 - i] = KeyUp(e[i])
     /\ \A i \in 1..(n + 1) :
          Cardinality({j \in 1..Len(e) : e[j].up /\ e[j].code = e[i].code}) = 1
     /\ rIn.platform = "windows" =>
          /\ \A i \in 1..n : e[i] = KeyDown(ModifierCode(ClaimedModifiers[i]))
          /\ e[n + 1] = KeyDown(WindowsVkCode(rIn.hotkey.keyCode))

\* C20 as stated: whenever the key resolves, on any build, the events are the
\* modifier presses in the order ctrl, alt, shift, meta, the key press, the key
\* release and the modifier releases in reverse order, each pressed key
\* released exactly once, at most 10 events.
C20_SequenceAsStated == (Injected /\ KeyResolved) => PressesThenReleases

\* C20 amended: that holds on the Windows build; on the macOS build a resolved
\* key gives one key-down and one key-up event of the key, both carrying the
\* enabled modifiers as flags, and no event of a modifier key; a build for
\* another platform emits nothing.
C20_SequenceAmended ==
  /\ (Injected /\ KeyResolved /\ rIn.platform = "windows") => PressesThenReleases
  /\ (Injected /\ KeyResolved /\ rIn.platform = "macos") =>
       /\ Len(rOut.events) = 2
       /\ rOut.events[1] = [code |-> MacKeyCode(rIn.hotkey.keyCode).code, up |-> FALSE,
                            flags |-> {CASE m = "ctrl" -> "Control"
                                         [] m = "alt" -> "Alternate"
                                         [] m = "shift" -> "Shift"
                                         [] m = "win" -> "Command" :
                                       m \in {ClaimedModifiers[i] :
                                                i \in 1..Len(ClaimedModifiers)}}]
       /\ rOut.events[2] = KeyUp(rOut.events[1])
  /\ (rOut.done /\ rIn.platform = "other") => rOut.events = <<>>

C20_Witness ==
  /\ Injected
  /\ rIn.platform = "windows"
  /\ rIn.hotkey.ctrl /\ rIn.hotkey.alt /\ rIn.hotkey.shift /\ rIn.hotkey.win
  /\ rIn.hotkey.keyCode = <<"F", "2", "4">>
  /\ Len(rOut.events) = InputsSize
  /\ rOut.events[1].code = VK_CONTROL
  /\ rOut.events[InputsSize] = KeyUp(rOut.events[1])
  /\ rOut.events[5].code = VK_F1 + 23

--------------------------------------------------------------------------
(* Further properties of a key press (Spec) and of the decode (SpecDecode) *)

\* C18: no decode step of a handler raises an error: whatever the settings
\* blob holds, also a value of a wrong JSON type, the handler gets its settings
\* and returns normally.
C18_DecodeNeverThrows == rOut.done => ~rOut.threw

\* the hotkey of the slot the press chose
ChosenHotkey ==
  IF ClaimedSlot = "primary" THEN mButtons[out.ctx].settings.primaryHotkey
  ELSE mButtons[out.ctx].settings.secondaryHotkey

\* C19: in a key press TriggerHotkey is called exactly when
\* SetDefaultAudioDeviceID was called in it and the chosen slot's hotkey is
\* enabled with a non-empty key; it is called at most once, and after the
\* SetDefaultAudioDeviceID call.
C19_HotkeyAfterSwitch ==
  /\ (hostPc = "inHandler" /\ out.event = "KeyUp" /\ ~out.hasSettings) => out.calls = <<>>
  /\ Pressed =>
       /\ Cardinality(CallsOf("TriggerHotkey")) =
            IF /\ CallsOf("SetDefaultAudioDeviceID") # {}
               /\ ChosenHotkey.enabled
               /\ ChosenHotkey.keyCode # ""
            THEN 1 ELSE 0
       /\ \A i \in CallsOf("TriggerHotkey") :
            \E k \in CallsOf("SetDefaultAudioDeviceID") : k < i

C19_Witness ==
  /\ Pressed
  /\ out.action = SET_ACTION_ID
  /\ out.setDefault
  /\ ChosenHotkey.enabled
  /\ \E i \in CallsOf("TriggerHotkey") : i = Len(out.calls)
  /\ out.defAfter # out.defBefore

--------------------------------------------------------------------------
(* Who changes the OS default *)

\* a step of plugin code: the host thread or the notification thread moves
PluginStep == hostPc' # hostPc \/ osPc' # osPc \/ os' # os

SetDefaultCalled == CallsOf("SetDefaultAudioDeviceID") # {}

\* the handler that has just run is a key press that set the default of its
\* button's (direction, role) to an id that is connected
KeyPressSet ==
  /\ out'.event = "KeyUp"
  /\ out'.ctx \in DOMAIN mButtons'
  /\ Cardinality(CallsOf("SetDefaultAudioDeviceID")') = 1
  /\ LET settings == mButtons'[out'.ctx].settings
         id == out'.deviceID
     IN /\ id # ""
        /\ id \in DOMAIN devices
        /\ devices[id].state = "CONNECTED"
        /\ osDefault' = [osDefault EXCEPT ![<<settings.direction, settings.role>>] = id]

\* C21: SetDefaultAudioDeviceID is only ever called by a key press, with the
\* pressed button's own direction and role and a non-empty id whose state the
\* press found CONNECTED; appearing, receiving settings, disappearing and the
\* notification callback never call it and never change the OS default.
C21_OnlyKeyPressSetsDefault ==
  [][/\ (HostStep /\ SetDefaultCalled') => KeyPressSet
     /\ (PluginStep /\ osDefault' # osDefault) => (HostStep /\ SetDefaultCalled')
     /\ \A i \in 1..Len(os'.calls) : os'.calls[i].op # "SetDefaultAudioDeviceID"]_vars

C21_Witness ==
  /\ Pressed
  /\ SetDefaultCalled
  /\ out.deviceState = "CONNECTED"
  /\ out.defAfter = out.deviceID
  /\ out.defAfter # out.defBefore
  /\ out.role = "COMMUNICATION"

--------------------------------------------------------------------------
(* A Toggle button pressed again and again: each press is followed by the
   delivery of the notification it raised.  rIn is the settings blob the host
   keeps for the button and sends with every key press. *)

\* the blobs of a Toggle button: two devices by id, two by descriptor with
\* fuzzy matching, and the same device in both slots
ToggleBlobs == {BlobIds, BlobFuzzy, [BlobIds EXCEPT !.primary = StrId("C")]}

\* the ids a default can hold: none, or a connected device
DefaultIds == {""} \cup {i \in DOMAIN devices : devices[i].state = "CONNECTED"}

\* the button as WillAppearForAction registers it
Appeared(inAction, inContext, blob) ==
  [action |-> inAction, context |-> inContext,
   settings |-> FillButtonDeviceInfo(JsonGetButtonSettings(blob), inContext).settings]

InitToggle ==
  /\ devices \in LiveSets
  /\ \E d \in DefaultIds, c \in DefaultIds :
       osDefault = [k \in Directions \X Roles |->
                      IF k[1] = "INPUT" THEN ""
                      ELSE IF k[2] = "DEFAULT" THEN d ELSE c]
  /\ pending = <<>>
  /\ rIn \in ToggleBlobs
  /\ \E others \in SUBSET {"c1"} :
       mButtons = [x \in others \cup {"c2"} |->
                     Appeared(ActionOf[x], x, IF x = "c2" THEN rIn ELSE BlobIds)]
  /\ lockOwner = "none"
  /\ hostPc = "idle"
  /\ osPc = "idle"
  /\ os = NoOs
  /\ out = NoOut
  /\ rOut = "-"

\* the key is pressed once the previous notification has been delivered
TogglePress(state) ==
  /\ pending = <<>>
  /\ osPc = "idle"
  /\ KeyUpForAction(TOGGLE_ACTION_ID, "c2", [settings |-> rIn, state |-> state])

NextToggle ==
  \/ \E state \in {0, 1} : TogglePress(state)
  \/ HostReturn
  \/ OnDefaultDeviceChangedCall
  \/ OnDefaultDeviceChangedLock
  \/ OnDefaultDeviceChangedStep
  \/ OnDefaultDeviceChangedReturn

SpecToggle == InitToggle /\ [][NextToggle]_vars

\* the handler returns, the OS delivers the notification it holds, and the
\* callback runs to its end
FairSpecToggle ==
  /\ SpecToggle
  /\ WF_vars(HostReturn)
  /\ WF_vars(OnDefaultDeviceChangedCall)
  /\ SF_vars(OnDefaultDeviceChangedLock)
  /\ WF_vars(OnDefaultDeviceChangedStep)
  /\ WF_vars(OnDefaultDeviceChangedReturn)

TogglePrimary == VolatilePrimaryID(mButtons["c2"].settings)
ToggleSecondary == VolatileSecondaryID(mButtons["c2"].settings)
ToggleKey == <<mButtons["c2"].settings.direction, mButtons["c2"].settings.role>>

\* the two slots resolve to two different connected devices
TwoConnected ==
  /\ TogglePrimary # ""
  /\ ToggleSecondary # ""
  /\ TogglePrimary # ToggleSecondary
  /\ GetAudioDeviceState(TogglePrimary) = "CONNECTED"
  /\ GetAudioDeviceState(ToggleSecondary) = "CONNECTED"

\* the Toggle button has just been pressed with `state`, which agreed with
\* the default the press found
ToggleAgrees(state) ==
  /\ Pressed
  /\ out.ctx = "c2"
  /\ out.action = TOGGLE_ACTION_ID
  /\ out.state = state
  /\ TwoConnected
  /\ out.defBefore = IF state = 0 THEN TogglePrimary ELSE ToggleSecondary

\* the notification has been delivered: the default is on the other device
\* and the button was told the other state
ToggleFlipped(state) ==
  LET other == IF state = 0 THEN ToggleSecondary ELSE TogglePrimary
  IN /\ BroadcastDone
     /\ Head(pending) = Notification(ToggleKey[1], ToggleKey[2], other)
     /\ osDefault[ToggleKey] = other
     /\ CallsFor("c2") = <<Call("SetState", "c2", 1 - state, "-")>>

\* C22: a key press on a Toggle button whose two slots resolve to two
\* different connected devices, with a reported state that agrees with the OS
\* default (0: primary is the default, 1: secondary is), leads to the delivery
\* of a notification after which the OS default is the other device and the
\* button was set to the other state, which agrees with the new default.
C22_ToggleAlternates ==
  \A state \in {0, 1} : ToggleAgrees(state) ~> ToggleFlipped(state)

C22_Witness ==
  /\ ToggleAgrees(1)
  /\ mButtons["c2"].settings.matchStrategy = "Fuzzy"
  /\ out.defAfter = TogglePrimary
  /\ pending = <<Notification(ToggleKey[1], ToggleKey[2], TogglePrimary)>>

====
